---- MODULE Spec2Model ----
(***************************************************************************)
(* Media-asset upload/delete coordination of the politician-site backend:  *)
(* the photo, press and video controllers, the category resolver, the      *)
(* object store (Cloudinary) and the record store (MongoDB via mongoose).  *)
(*                                                                         *)
(* One request is served at a time.  A handler is split at its awaits on   *)
(* the object store and on the record store, so that the outcome and the   *)
(* completion order of every external call is a choice of the environment. *)
(* The handlers are modelled as exported: req.file / req.files is what the *)
(* upload middleware hands to the controller.                              *)
(***************************************************************************)
EXTENDS Integers, Sequences, FiniteSets, TLC

VARIABLES
  env,          \* process.env.NODE_ENV
  categories,   \* the Category collection, in insertion (natural) order
  records,      \* the Photo, Press and Video collections
  blobs,        \* the object store: the blobs that exist, by public id and resource type
  req,          \* the request being served and the position of its handler
  uploads,      \* the upload calls of the request, by input index
  completed,    \* the indices of the settled uploads, in completion order
  dels,         \* the destroy calls of the request, by asset index
  res,          \* the response sent for the request
  before,       \* the record store as it was when the request arrived
  nextRef,      \* the next public id the object store hands out
  nextId,       \* the next _id the record store hands out
  served,       \* the number of requests received so far
  nextCat,      \* the number of the next _id the Category collection hands out
  wire,         \* the last multipart request the upload middleware has parsed
  destroyFailed, \* whether a destroy call has thrown so far
  inflight,     \* the handlers that run interleaved: position and local values
  views,        \* the views path of the photo documents, by _id
  report,       \* the data of the last response of deleteMultipleImages
  resolved      \* the last stand-alone category resolution: token, kind, outcome

vars == <<env, categories, records, blobs, req, uploads, completed, dels, res,
          before, nextRef, nextId, served, nextCat, wire, destroyFailed, inflight,
          views, report, resolved>>

-----------------------------------------------------------------------------
(* Bounds *)

\* requests received in one behaviour
MaxReqs == 2
\* image blobs handed to uploadMultiplePress
MaxFiles == 2
\* documents of the Category collection in the resolver's specification
MaxCats == 2

-----------------------------------------------------------------------------
(* Values *)

Kinds == {"photo", "press", "video"}

\* the _id values of the Category collection, in the order they are handed out
CategoryIds == <<"c1", "c2", "c3", "c4", "c5", "c6">>

\* strings that cast to an ObjectId; "c9" is well formed and names no document
ObjectIds == {CategoryIds[n] : n \in 1..Len(CategoryIds)} \cup {"c9"}

\* category names; "c2" is a name that reads like an identifier
Names == {"news", "talks", "c2"}

\* category tokens a caller may send; "" is the missing field, "zz" matches nothing
Tokens == {"", "c1", "c2", "c9", "news", "talks", "zz", "events"}

\* the enum of the photo schema's category path (one member, and "zz" outside it)
PhotoCategories == {"events"}

NoDoc == [id |-> "", name |-> "", type |-> ""]

IsObjectId(token) == token \in ObjectIds

Min(S) == CHOOSE x \in S : \A y \in S : x <= y

\* CategoryModel.findOne: the first document, in natural order, among the matches
FindOne(cats, hits) == IF hits = {} THEN NoDoc ELSE cats[Min(hits)]

\* findOne({ _id: id })
FindOneById(cats, id) ==
  FindOne(cats, {i \in 1..Len(cats) : cats[i].id = id})

\* findOne({ _id: id, type: type })
FindOneByIdAndType(cats, id, type) ==
  FindOne(cats, {i \in 1..Len(cats) : cats[i].id = id /\ cats[i].type = type})

\* findOne({ name: name, type: type })
FindOneByNameAndType(cats, name, type) ==
  FindOne(cats, {i \in 1..Len(cats) : cats[i].name = name /\ cats[i].type = type})

NoError == <<>>

-----------------------------------------------------------------------------
(* Category resolution *)

\* a lookup by identifier that ignores the category's type
FindCategory_AnyType(category, type, cats) ==
  LET byId == IF IsObjectId(category)
              THEN FindOneById(cats, category)
              ELSE NoDoc
      byName == FindOneByNameAndType(cats, category, type)
  IN IF byId # NoDoc THEN [categoryDoc |-> byId, categoryId |-> category]
     ELSE IF byName # NoDoc THEN [categoryDoc |-> byName, categoryId |-> byName.id]
     ELSE [categoryDoc |-> NoDoc, categoryId |-> category]

\* the two lookups shared by the press helper and uploadVideo: by _id (a cast
\* error is caught and leaves categoryDoc unset), then by name, both with the type
FindCategory(category, type, cats) ==
  LET byId == IF IsObjectId(category)
              THEN FindOneByIdAndType(cats, category, type)
              ELSE NoDoc
      byName == FindOneByNameAndType(cats, category, type)
  IN IF byId # NoDoc THEN [categoryDoc |-> byId, categoryId |-> category]
     ELSE IF byName # NoDoc THEN [categoryDoc |-> byName, categoryId |-> byName.id]
     ELSE [categoryDoc |-> NoDoc, categoryId |-> category]

\* a resolver that tells a category of another type from no category at all
validateAndResolveCategory_Mismatch(category, cats) ==
  IF category = ""
  THEN [ok |-> FALSE, categoryDoc |-> NoDoc, categoryId |-> category,
        error |-> <<"Category is required and must be a string">>]
  ELSE LET found == FindCategory(category, "press", cats)
           other == FindOneById(cats, category)
       IN IF found.categoryDoc # NoDoc
          THEN [ok |-> TRUE, categoryDoc |-> found.categoryDoc,
                categoryId |-> found.categoryId, error |-> NoError]
          ELSE IF IsObjectId(category) /\ other # NoDoc
          THEN [ok |-> FALSE, categoryDoc |-> NoDoc, categoryId |-> category,
                error |-> <<"Category mismatch", category, other.type>>]
          ELSE [ok |-> FALSE, categoryDoc |-> NoDoc, categoryId |-> category,
                error |-> <<"Invalid press category: ", category,
                            ". Please ensure the category exists and is of type 'press'.">>]

\* pressController's helper
validateAndResolveCategory(category, cats) ==
  IF category = ""
  THEN [ok |-> FALSE, categoryDoc |-> NoDoc, categoryId |-> category,
        error |-> <<"Category is required and must be a string">>]
  ELSE LET found == FindCategory(category, "press", cats)
       IN IF found.categoryDoc # NoDoc
          THEN [ok |-> TRUE, categoryDoc |-> found.categoryDoc,
                categoryId |-> found.categoryId, error |-> NoError]
          ELSE [ok |-> FALSE, categoryDoc |-> NoDoc, categoryId |-> category,
                error |-> <<"Invalid press category: ", category,
                            ". Please ensure the category exists and is of type 'press'.">>]

\* the resolution inlined in uploadVideo (the missing token is caught by the
\* required-fields check that precedes it)
uploadVideoCategory(category, cats) ==
  IF category = ""
  THEN [ok |-> FALSE, categoryDoc |-> NoDoc, categoryId |-> category,
        error |-> <<"All required fields must be provided">>]
  ELSE LET found == FindCategory(category, "video", cats)
       IN IF found.categoryDoc # NoDoc
          THEN [ok |-> TRUE, categoryDoc |-> found.categoryDoc,
                categoryId |-> found.categoryId, error |-> NoError]
          ELSE [ok |-> FALSE, categoryDoc |-> NoDoc, categoryId |-> category,
                error |-> <<"Invalid video category: ", category,
                            ". Please ensure the category exists and is of type 'video'.">>]

ResolveFor(kind, category, cats) ==
  IF kind = "press" THEN validateAndResolveCategory(category, cats)
  ELSE uploadVideoCategory(category, cats)

-----------------------------------------------------------------------------
(* The stores, the request and its calls *)

\* the Category collection of the running system
MainCategories ==
  << [id |-> "c1", name |-> "news",   type |-> "press"],
     [id |-> "c2", name |-> "talks",  type |-> "video"],
     [id |-> "c3", name |-> "events", type |-> "photo"] >>

\* category tokens of the requests
ReqTokens == {"", "c1", "c2", "news", "talks", "events"}

UploadOps == {"uploadPhoto", "uploadPress", "uploadMultiplePress", "uploadVideo"}
DeleteOps == {"deletePhoto", "deletePress", "deleteVideo"}

KindOf(op) ==
  CASE op \in {"uploadPhoto", "deletePhoto", "createPhoto", "updatePhoto"} -> "photo"
    [] op \in {"uploadPress", "uploadMultiplePress", "deletePress", "createPress",
               "updatePress"} -> "press"
    [] op \in {"uploadVideo", "deleteVideo", "createVideo", "updateVideo"} -> "video"
    [] OTHER -> "none"

\* a public id: the object store's own, or `${public_id}_thumbnail`
NoRef == [n |-> 0, thumbnail |-> FALSE]
Ref(n) == [n |-> n, thumbnail |-> FALSE]
ThumbnailOf(ref) == [ref EXCEPT !.thumbnail = TRUE]

Blob(ref, rtype) == [ref |-> ref, rtype |-> rtype]

Idle ==
  [op |-> "none", pc |-> "idle", id |-> 0, nfiles |-> 0, thumb |-> FALSE,
   category |-> "", categoryId |-> "", valid |-> FALSE, createCalled |-> FALSE]

NoRes == [status |-> 0, message |-> <<>>, recordId |-> 0]

\* requests served at the same time in the specifications of interleaved handlers
MaxInflight == 2
Slots == 1..MaxInflight

\* a handler that runs interleaved with others: the request's parameters, the
\* position of the handler, the value it read and the status it answered with
NoHandler ==
  [op |-> "none", pc |-> "idle", id |-> 0, category |-> "", ref |-> NoRef,
   thumbnail |-> NoRef, seen |-> 0, status |-> 0]

\* data of the response of deleteMultipleImages
NoReport ==
  [successful |-> <<>>, failed |-> <<>>, totalRequested |-> 0, successCount |-> 0,
   failedCount |-> 0]

\* an upload call: not yet started, in flight, or settled
Upload(st, rtype, derived) ==
  [st |-> st, ref |-> NoRef, rtype |-> rtype, derived |-> derived]

\* a destroy call
Destroy(st, ref, rtype) == [st |-> st, ref |-> ref, rtype |-> rtype]

\* a file part of a multipart request
File(fieldname, mimetype) == [fieldname |-> fieldname, mimetype |-> mimetype]

NoMulterError == [name |-> "", code |-> "", message |-> <<>>]

\* the field names of the upload routes, and one that no route declares
FieldNames == {"image", "images", "video", "thumbnail", "photo", "other"}

\* no multipart request parsed yet: the number of the request, its route, the
\* number of file parts sent and accepted per field, whether a part carried a
\* media type outside the list of its field, and the middleware's error
NoWire ==
  [seq |-> 0, route |-> "none", sent |-> [f \in FieldNames |-> 0],
   accepted |-> [f \in FieldNames |-> 0], disallowed |-> FALSE,
   error |-> NoMulterError]

Terminal == req.pc \in {"done", "failed"}

Pending(calls) == {i \in 1..Len(calls) : calls[i].st = "pending"}

-----------------------------------------------------------------------------
(* Error responses *)

\* the first error-handling middleware of the application: every error passed
\* to next() by asyncHandler ends here, whatever status the controller set
GlobalErrorHandler(err, nodeEnv) ==
  [status |-> 500,
   message |-> IF nodeEnv = "development" THEN err ELSE <<"Internal server error">>,
   recordId |-> 0]

\* the catch blocks of the photo controller
PhotoCatch(err, status) == [status |-> status, message |-> err, recordId |-> 0]

\* the response to an error thrown by the handler of `op`
ErrorResponse(op, err, nodeEnv) ==
  IF op \in {"uploadPhoto", "deletePhoto"}
  THEN PhotoCatch(err, 500)
  ELSE GlobalErrorHandler(err, nodeEnv)

StoreError == <<"object store error">>
ValidationError == <<"validation failed">>

-----------------------------------------------------------------------------
(* Schema validation at the record store *)

\* images validator of the press schema
MaxPressImages == 5

\* the category validator of the press and video schemas
CategoryValidator(value, type, cats) ==
  FindOneByIdAndType(cats, value, type) # NoDoc

\* a schema without the upper bound on the images array
PressSchemaValid_NoUpperBound(valid, images, category, cats) ==
  /\ valid
  /\ Len(images) > 0
  /\ \A i \in 1..Len(images) : images[i] # NoRef
  /\ CategoryValidator(category, "press", cats)

\* PressModel.create's validation: `valid` stands for the paths the model does
\* not follow (title, source, readTime, content)
PressSchemaValid(valid, images, category, cats) ==
  /\ valid
  /\ Len(images) > 0 /\ Len(images) <= MaxPressImages
  /\ \A i \in 1..Len(images) : images[i] # NoRef
  /\ CategoryValidator(category, "press", cats)

\* VideoModel.create's validation, with the unique index on publicId
VideoSchemaValid(valid, publicId, category, cats, recs) ==
  /\ valid
  /\ publicId # NoRef
  /\ CategoryValidator(category, "video", cats)
  /\ \A r \in recs : r.kind = "video" => r.assets[1] # publicId

\* PhotoModel.create's validation: the category path is an enum of strings
PhotoSchemaValid(valid, cloudinaryPublicId, category) ==
  /\ valid
  /\ cloudinaryPublicId # NoRef
  /\ category \in PhotoCategories

-----------------------------------------------------------------------------
(* Awaiting the uploads *)

\* a collector that waits for every upload to settle and keeps the failed ones
PromiseAll_Settled(ups) ==
  IF \A i \in 1..Len(ups) : ups[i].st \in {"ok", "failed"} THEN "fulfilled"
  ELSE "pending"

\* await Promise.all(uploadPromises): rejects with the first rejection
PromiseAll(ups) ==
  IF \E i \in 1..Len(ups) : ups[i].st = "failed" THEN "rejected"
  ELSE IF \A i \in 1..Len(ups) : ups[i].st = "ok" THEN "fulfilled"
  ELSE "pending"

\* an await that goes on as soon as the first upload has succeeded
AwaitEach_FirstOnly(ups) ==
  CASE ups[1].st = "ok" -> "fulfilled"
    [] ups[1].st = "failed" -> "rejected"
    [] OTHER -> "pending"

\* the uploads awaited one after the other (photo, single press image, video
\* and then thumbnail): "next" when the following upload is to be started
AwaitEach(ups) ==
  LET open == {i \in 1..Len(ups) : ups[i].st # "ok"}
  IN IF open = {} THEN "fulfilled"
     ELSE CASE ups[Min(open)].st = "failed" -> "rejected"
            [] ups[Min(open)].st = "idle" -> "next"
            [] OTHER -> "pending"

\* an await whose promise stays pending when an upload is rejected
Awaited_NoReject(op, ups) ==
  LET a == IF op = "uploadMultiplePress" THEN PromiseAll(ups) ELSE AwaitEach(ups)
  IN IF a = "rejected" THEN "pending" ELSE a

\* the await of the handler `op` on its upload calls
Awaited(op, ups) ==
  IF op = "uploadMultiplePress" THEN PromiseAll(ups) ELSE AwaitEach(ups)

\* an assembly of the image list in the order the uploads completed
UploadedImages_AsCompleted(ups, order) ==
  [k \in 1..Len(order) |-> ups[order[k]].ref]

\* uploadedImages: the results of Promise.all, one per input file, in input order
UploadedImages(ups, order) == [i \in 1..Len(ups) |-> ups[i].ref]

\* the public id an upload call yields when it succeeds
PublicIdOf(ups, i, fresh) ==
  IF ups[i].derived THEN ThumbnailOf(ups[1].ref) ELSE Ref(fresh)

-----------------------------------------------------------------------------
(* Awaiting the deletions *)

\* deletePhoto: the destroy call is wrapped in try/catch
DestroyCaught(ds) ==
  IF Pending(ds) = {} THEN "settled" ELSE "pending"

\* a collector that goes on as soon as one destroy call has settled
PromiseAllSettled_Any(ds) ==
  IF \E i \in 1..Len(ds) : ds[i].st \notin {"idle", "pending"} THEN "settled"
  ELSE "pending"

\* deletePress: await Promise.allSettled(deletePromises)
PromiseAllSettled(ds) ==
  IF Pending(ds) = {} THEN "settled" ELSE "pending"

\* deleteVideo: each destroy call is awaited in turn, outside any try/catch
DestroyEach(ds) ==
  LET open == {i \in 1..Len(ds) : ds[i].st \notin {"ok", "not found"}}
  IN IF open = {} THEN "settled"
     ELSE CASE ds[Min(open)].st = "failed" -> "rejected"
            [] ds[Min(open)].st = "idle" -> "next"
            [] OTHER -> "pending"

DeletionsAwaited(op, ds) ==
  CASE op = "deletePhoto" -> DestroyCaught(ds)
    [] op \in {"deletePress", "deleteMultipleImages"} -> PromiseAllSettled(ds)
    [] OTHER -> DestroyEach(ds)

\* Model.findById on the collection of `kind`
FindById(recs, kind, id) == {r \in recs : r.id = id /\ r.kind = kind}

-----------------------------------------------------------------------------
(* The requests *)

NoResolved ==
  [kind |-> "none", token |-> "", cats |-> <<>>, again |-> FALSE, prevId |-> "",
   out |-> [ok |-> FALSE, categoryDoc |-> NoDoc, categoryId |-> "", error |-> NoError]]

Init ==
  /\ env \in {"development", "production"}
  /\ categories = MainCategories
  /\ records = {}
  /\ blobs = {}
  /\ req = Idle
  /\ uploads = <<>>
  /\ completed = <<>>
  /\ dels = <<>>
  /\ res = NoRes
  /\ before = {}
  /\ nextRef = 1
  /\ nextId = 1
  /\ served = 0
  /\ nextCat = 4
  /\ wire = NoWire
  /\ destroyFailed = FALSE
  /\ inflight = [t \in Slots |-> NoHandler]
  /\ views = [id \in 1..MaxReqs + 1 |-> 0]
  /\ report = NoReport
  /\ resolved = NoResolved

\* the previous request has been answered and its calls have settled
CanReceive ==
  /\ req.pc \in {"idle", "done", "failed"}
  /\ served < MaxReqs
  /\ Pending(uploads) = {}

\* what every arriving request resets
Receive ==
  /\ completed' = <<>>
  /\ before' = records
  /\ served' = served + 1
  /\ UNCHANGED <<wire, destroyFailed, inflight, views, report>>

\* the arrival of a request whose first step writes to no store
Arrive ==
  /\ Receive
  /\ UNCHANGED <<env, nextCat, categories, records, blobs, nextRef, nextId, resolved>>

\* POST /api/photos/upload, up to the upload call
uploadPhoto(nfiles, category, valid) ==
  /\ CanReceive
  /\ Arrive
  /\ dels' = <<>>
  /\ LET r == [Idle EXCEPT !.op = "uploadPhoto", !.nfiles = nfiles,
                           !.category = category, !.valid = valid]
     IN IF nfiles = 0
        THEN /\ req' = [r EXCEPT !.pc = "failed"]
             /\ res' = PhotoCatch(<<"No file uploaded">>, 500)
             /\ uploads' = <<>>
        ELSE /\ req' = [r EXCEPT !.pc = "uploading"]
             /\ res' = NoRes
             /\ uploads' = <<Upload("pending", "image", FALSE)>>

\* POST /api/press/upload, up to the upload call
uploadPress(nfiles, category, valid) ==
  /\ CanReceive
  /\ Arrive
  /\ dels' = <<>>
  /\ LET r == [Idle EXCEPT !.op = "uploadPress", !.nfiles = nfiles,
                           !.category = category, !.valid = valid]
         out == validateAndResolveCategory(category, categories)
     IN IF nfiles = 0
        THEN /\ req' = [r EXCEPT !.pc = "failed"]
             /\ res' = GlobalErrorHandler(<<"Image file is required">>, env)
             /\ uploads' = <<>>
        ELSE IF ~out.ok
        THEN /\ req' = [r EXCEPT !.pc = "failed"]
             /\ res' = GlobalErrorHandler(out.error, env)
             /\ uploads' = <<>>
        ELSE /\ req' = [r EXCEPT !.pc = "uploading", !.categoryId = out.categoryId]
             /\ res' = NoRes
             /\ uploads' = <<Upload("pending", "image", FALSE)>>

\* POST /api/press/upload-multiple, up to Promise.all: every upload is started
uploadMultiplePress(nfiles, category, valid) ==
  /\ CanReceive
  /\ Arrive
  /\ dels' = <<>>
  /\ LET r == [Idle EXCEPT !.op = "uploadMultiplePress", !.nfiles = nfiles,
                           !.category = category, !.valid = valid]
         out == validateAndResolveCategory(category, categories)
     IN IF nfiles = 0
        THEN /\ req' = [r EXCEPT !.pc = "failed"]
             /\ res' = GlobalErrorHandler(<<"No files uploaded">>, env)
             /\ uploads' = <<>>
        ELSE IF ~out.ok
        THEN /\ req' = [r EXCEPT !.pc = "failed"]
             /\ res' = GlobalErrorHandler(out.error, env)
             /\ uploads' = <<>>
        ELSE /\ req' = [r EXCEPT !.pc = "uploading", !.categoryId = out.categoryId]
             /\ res' = NoRes
             /\ uploads' = [i \in 1..nfiles |-> Upload("pending", "image", FALSE)]

\* POST /api/videos/upload, up to the upload of the video (a missing category
\* stands for any missing required field; `valid` is the schema's verdict on
\* the other fields, such as the duration format): the thumbnail is
\* uploaded (or derived from the video) only after the video upload was awaited
uploadVideo(nfiles, thumb, category, valid) ==
  /\ CanReceive
  /\ Arrive
  /\ dels' = <<>>
  /\ LET r == [Idle EXCEPT !.op = "uploadVideo", !.nfiles = nfiles, !.thumb = thumb,
                           !.category = category, !.valid = valid]
         out == uploadVideoCategory(category, categories)
     IN IF nfiles = 0
        THEN /\ req' = [r EXCEPT !.pc = "failed"]
             /\ res' = GlobalErrorHandler(<<"Video file is required">>, env)
             /\ uploads' = <<>>
        ELSE IF ~out.ok
        THEN /\ req' = [r EXCEPT !.pc = "failed"]
             /\ res' = GlobalErrorHandler(out.error, env)
             /\ uploads' = <<>>
        ELSE /\ req' = [r EXCEPT !.pc = "uploading", !.categoryId = out.categoryId]
             /\ res' = NoRes
             /\ uploads' = << Upload("pending", "video", FALSE),
                              Upload("idle", IF thumb THEN "image" ELSE "video", ~thumb) >>

\* an upload call settles: the object store keeps the blob or reports an error,
\* and the handler, if it still awaits its uploads, goes on
UploadSettles(i, ok) ==
  /\ i \in Pending(uploads)
  /\ LET pid == PublicIdOf(uploads, i, nextRef)
         ups == [uploads EXCEPT ![i].st = IF ok THEN "ok" ELSE "failed",
                                ![i].ref = IF ok THEN pid ELSE NoRef]
         outcome == IF req.pc = "uploading" THEN Awaited(req.op, ups) ELSE "detached"
     IN /\ blobs' = IF ok THEN blobs \cup {Blob(pid, uploads[i].rtype)} ELSE blobs
        /\ nextRef' = IF ok /\ ~uploads[i].derived THEN nextRef + 1 ELSE nextRef
        /\ completed' = Append(completed, i)
        /\ CASE outcome = "rejected" ->
                  /\ req' = [req EXCEPT !.pc = "failed"]
                  /\ res' = ErrorResponse(req.op, StoreError, env)
                  /\ uploads' = ups
             [] outcome = "fulfilled" ->
                  /\ req' = [req EXCEPT !.pc = "persisting"]
                  /\ uploads' = ups
                  /\ UNCHANGED res
             [] outcome = "next" ->
                  /\ uploads' = [ups EXCEPT ![i + 1].st = "pending"]
                  /\ UNCHANGED <<req, res>>
             [] OTHER ->
                  /\ uploads' = ups
                  /\ UNCHANGED <<req, res>>
  /\ UNCHANGED <<env, wire, destroyFailed, inflight, views, report, nextCat, categories, records, dels, before, nextId, served, resolved>>

\* Model.create with the uploaded assets, and the response
Persist ==
  /\ req.pc = "persisting"
  /\ LET assets == IF req.op = "uploadMultiplePress"
                   THEN UploadedImages(uploads, completed)
                   ELSE [i \in 1..Len(uploads) |-> uploads[i].ref]
         category == IF req.op = "uploadPhoto" THEN req.category ELSE req.categoryId
         ok == CASE req.op = "uploadPhoto" ->
                      PhotoSchemaValid(req.valid, assets[1], category)
                 [] req.op = "uploadVideo" ->
                      VideoSchemaValid(req.valid, assets[1], category, categories, records)
                 [] OTHER ->
                      PressSchemaValid(req.valid, assets, category, categories)
     IN IF ok
        THEN /\ records' = records \cup
                  {[id |-> nextId, kind |-> KindOf(req.op), category |-> category,
                    assets |-> assets, isActive |-> TRUE]}
             /\ nextId' = nextId + 1
             /\ req' = [req EXCEPT !.pc = "done", !.createCalled = TRUE]
             /\ res' = [status |-> 201, message |-> <<"uploaded successfully">>,
                        recordId |-> nextId]
        ELSE /\ req' = [req EXCEPT !.pc = "failed", !.createCalled = TRUE]
             /\ res' = ErrorResponse(req.op, ValidationError, env)
             /\ UNCHANGED <<records, nextId>>
  /\ UNCHANGED <<env, wire, destroyFailed, inflight, views, report, nextCat, categories, blobs, uploads, completed, dels, before, nextRef,
                 served, resolved>>


\* DELETE /api/photos/:id, up to the destroy call
deletePhoto(id) ==
  /\ CanReceive
  /\ Arrive
  /\ uploads' = <<>>
  /\ LET r == [Idle EXCEPT !.op = "deletePhoto", !.id = id]
         found == FindById(records, "photo", id)
     IN IF found = {}
        THEN /\ req' = [r EXCEPT !.pc = "failed"]
             /\ res' = PhotoCatch(<<"Photo not found">>, 500)
             /\ dels' = <<>>
        ELSE LET photo == CHOOSE x \in found : TRUE
             IN /\ req' = [r EXCEPT !.pc = "deleting"]
                /\ res' = NoRes
                /\ dels' = <<Destroy("pending", photo.assets[1], "image")>>

\* DELETE /api/press/:id, up to Promise.allSettled: every destroy call is started
deletePress(id) ==
  /\ CanReceive
  /\ Arrive
  /\ uploads' = <<>>
  /\ LET r == [Idle EXCEPT !.op = "deletePress", !.id = id]
         found == FindById(records, "press", id)
     IN IF found = {}
        THEN /\ req' = [r EXCEPT !.pc = "failed"]
             /\ res' = GlobalErrorHandler(<<"Press article not found">>, env)
             /\ dels' = <<>>
        ELSE LET press == CHOOSE x \in found : TRUE
             IN /\ req' = [r EXCEPT !.pc = "deleting"]
                /\ res' = NoRes
                /\ dels' = [i \in 1..Len(press.assets) |->
                              Destroy("pending", press.assets[i], "image")]

\* DELETE /api/videos/:id, up to the destroy call for the video: the thumbnail
\* is destroyed only after that call was awaited
deleteVideo(id) ==
  /\ CanReceive
  /\ Arrive
  /\ uploads' = <<>>
  /\ LET r == [Idle EXCEPT !.op = "deleteVideo", !.id = id]
         found == FindById(records, "video", id)
     IN IF found = {}
        THEN /\ req' = [r EXCEPT !.pc = "failed"]
             /\ res' = GlobalErrorHandler(<<"Video not found">>, env)
             /\ dels' = <<>>
        ELSE LET video == CHOOSE x \in found : TRUE
             IN /\ req' = [r EXCEPT !.pc = "deleting"]
                /\ res' = NoRes
                /\ dels' = IF video.assets[2] = NoRef
                           THEN << Destroy("pending", video.assets[1], "video") >>
                           ELSE << Destroy("pending", video.assets[1], "video"),
                                   Destroy("idle", video.assets[2], "image") >>

\* a destroy call settles: the object store removes the blob of that public id
\* and resource type, finds none, or the call throws; the handler goes on
DestroySettles(i, outcome) ==
  /\ req.pc = "deleting"
  /\ i \in Pending(dels)
  /\ LET b == Blob(dels[i].ref, dels[i].rtype)
         st == IF outcome = "throw" THEN "failed"
               ELSE IF b \in blobs THEN "ok" ELSE "not found"
         ds == [dels EXCEPT ![i].st = st]
         awaited == DeletionsAwaited(req.op, ds)
     IN /\ blobs' = IF outcome = "throw" THEN blobs ELSE blobs \ {b}
        /\ CASE awaited = "rejected" ->
                  /\ req' = [req EXCEPT !.pc = "failed"]
                  /\ res' = ErrorResponse(req.op, StoreError, env)
                  /\ dels' = ds
             [] awaited = "settled" ->
                  /\ req' = [req EXCEPT !.pc = IF req.op = "deleteMultipleImages"
                                               THEN "reporting" ELSE "removing"]
                  /\ dels' = ds
                  /\ UNCHANGED res
             [] awaited = "next" ->
                  /\ dels' = [ds EXCEPT ![i + 1].st = "pending"]
                  /\ UNCHANGED <<req, res>>
             [] OTHER ->
                  /\ dels' = ds
                  /\ UNCHANGED <<req, res>>
  /\ destroyFailed' = (destroyFailed \/ outcome = "throw")
  /\ UNCHANGED <<env, wire, inflight, views, report, nextCat, categories, records, uploads, completed, before, nextRef,
                 nextId, served, resolved>>

\* Model.findByIdAndDelete, and the response
RemoveRecord ==
  /\ req.pc = "removing"
  /\ req.op \in DeleteOps
  /\ records' = records \ FindById(records, KindOf(req.op), req.id)
  /\ req' = [req EXCEPT !.pc = "done"]
  /\ res' = [status |-> 200, message |-> <<"deleted successfully">>, recordId |-> req.id]
  /\ UNCHANGED <<env, wire, destroyFailed, inflight, views, report, nextCat, categories, blobs, uploads, completed, dels, before, nextRef,
                 nextId, served, resolved>>

Next ==
  \/ \E n \in 0..1, c \in ReqTokens, v \in BOOLEAN : uploadPhoto(n, c, v)
  \/ \E n \in 0..1, c \in ReqTokens, v \in BOOLEAN : uploadPress(n, c, v)
  \/ \E n \in 0..MaxFiles, c \in ReqTokens, v \in BOOLEAN : uploadMultiplePress(n, c, v)
  \/ \E n \in 0..1, t \in BOOLEAN, c \in ReqTokens, v \in BOOLEAN : uploadVideo(n, t, c, v)
  \/ \E i \in 1..Len(uploads), ok \in BOOLEAN : UploadSettles(i, ok)
  \/ Persist
  \/ \E id \in 1..nextId : deletePhoto(id)
  \/ \E id \in 1..nextId : deletePress(id)
  \/ \E id \in 1..nextId : deleteVideo(id)
  \/ \E i \in 1..Len(dels), o \in {"ok", "throw"} : DestroySettles(i, o)
  \/ RemoveRecord

Spec == Init /\ [][Next]_vars

\* the requests when every call to the object store and to the record store
\* comes back: an upload call that was started settles, and Model.create
\* returns or throws
SpecFair ==
  /\ Spec
  /\ WF_vars(\E i \in 1..Len(uploads), ok \in BOOLEAN : UploadSettles(i, ok))
  /\ WF_vars(Persist)

-----------------------------------------------------------------------------
(* Creation from existing references, and updates *)

CreateOps == {"createPhoto", "createPress", "createVideo"}
UpdateOps == {"updatePhoto", "updatePress", "updateVideo"}

\* the fields an update request may carry, among those the model follows
UpdateFields == {"assets", "category", "isActive"}

\* the images array of a request body: n descriptors with the caller's public ids
Images(n) == [i \in 1..n |-> Ref(i)]

\* a new document of the collection of `kind`
Record(id, kind, category, assets) ==
  [id |-> id, kind |-> kind, category |-> category, assets |-> assets, isActive |-> TRUE]

\* the response of a create or update handler that succeeded
Created(id) == [status |-> 201, message |-> <<"created successfully">>, recordId |-> id]
Updated(id) == [status |-> 200, message |-> <<"updated successfully">>, recordId |-> id]

\* what a create or update request leaves alone
NoStoreCall == UNCHANGED <<env, nextCat, categories, blobs, nextRef, resolved>>

\* the request as the handler read it
Body(op, id, nfiles, category, valid) ==
  [Idle EXCEPT !.op = op, !.id = id, !.nfiles = nfiles, !.category = category,
               !.valid = valid]

\* the handler threw, or answered from its catch block: nothing is written
Fails(r, response) ==
  /\ req' = [r EXCEPT !.pc = "failed"]
  /\ res' = response
  /\ uploads' = <<>>
  /\ dels' = <<>>
  /\ UNCHANGED <<records, nextId>>

\* Model.create succeeded
Creates(r, record) ==
  /\ req' = [r EXCEPT !.pc = "done", !.createCalled = TRUE]
  /\ res' = Created(record.id)
  /\ uploads' = <<>>
  /\ dels' = <<>>
  /\ records' = records \cup {record}
  /\ nextId' = nextId + 1

\* document.save() or findByIdAndUpdate succeeded
Updates(r, old, new) ==
  /\ req' = [r EXCEPT !.pc = "done"]
  /\ res' = Updated(old.id)
  /\ uploads' = <<>>
  /\ dels' = <<>>
  /\ records' = (records \ {old}) \cup {new}
  /\ UNCHANGED nextId

\* POST /api/photos
createPhoto(cloudinaryPublicId, category, valid) ==
  /\ CanReceive
  /\ Receive
  /\ NoStoreCall
  /\ LET r == Body("createPhoto", 0, IF cloudinaryPublicId = NoRef THEN 0 ELSE 1,
                   category, valid)
     IN IF category = "" \/ cloudinaryPublicId = NoRef
        THEN Fails(r, PhotoCatch(<<"Please provide all required fields">>, 400))
        ELSE IF ~PhotoSchemaValid(valid, cloudinaryPublicId, category)
        THEN Fails([r EXCEPT !.createCalled = TRUE], PhotoCatch(ValidationError, 400))
        ELSE Creates(r, Record(nextId, "photo", category, <<cloudinaryPublicId>>))

\* POST /api/press
createPress(images, category, valid) ==
  /\ CanReceive
  /\ Receive
  /\ NoStoreCall
  /\ LET r == Body("createPress", 0, Len(images), category, valid)
         out == validateAndResolveCategory(category, categories)
     IN IF Len(images) = 0
        THEN Fails(r, GlobalErrorHandler(<<"At least one image is required">>, env))
        ELSE IF ~out.ok
        THEN Fails(r, GlobalErrorHandler(out.error, env))
        ELSE IF ~PressSchemaValid(valid, images, out.categoryId, categories)
        THEN Fails([r EXCEPT !.categoryId = out.categoryId, !.createCalled = TRUE],
                   GlobalErrorHandler(ValidationError, env))
        ELSE Creates([r EXCEPT !.categoryId = out.categoryId],
                     Record(nextId, "press", out.categoryId, images))

\* POST /api/videos: the category is looked up by _id only, and a token that
\* does not cast to an ObjectId makes the lookup throw
createVideo(publicId, thumbnailPublicId, category, valid) ==
  /\ CanReceive
  /\ Receive
  /\ NoStoreCall
  /\ LET r == Body("createVideo", 0, IF publicId = NoRef THEN 0 ELSE 1, category, valid)
     IN IF category = "" \/ publicId = NoRef
        THEN Fails(r, GlobalErrorHandler(<<"All required fields must be provided">>, env))
        ELSE IF ~IsObjectId(category)
        THEN Fails(r, GlobalErrorHandler(<<"Cast to ObjectId failed">>, env))
        ELSE IF FindOneByIdAndType(categories, category, "video") = NoDoc
        THEN Fails(r, GlobalErrorHandler(<<"Invalid video category">>, env))
        ELSE IF ~VideoSchemaValid(valid, publicId, category, categories, records)
        THEN Fails([r EXCEPT !.categoryId = category, !.createCalled = TRUE],
                   GlobalErrorHandler(ValidationError, env))
        ELSE Creates([r EXCEPT !.categoryId = category],
                     Record(nextId, "video", category, <<publicId, thumbnailPublicId>>))

\* PUT /api/photos/:id
updatePhoto(id, fields, category, isActive, valid) ==
  /\ CanReceive
  /\ Receive
  /\ NoStoreCall
  /\ LET r == Body("updatePhoto", id, 0, category, valid)
         found == FindById(records, "photo", id)
     IN IF found = {}
        THEN Fails(r, PhotoCatch(<<"Photo not found">>, 400))
        ELSE LET photo == CHOOSE x \in found : TRUE
                 new == [photo EXCEPT
                           !.category = IF "category" \in fields THEN category ELSE @,
                           !.isActive = IF "isActive" \in fields THEN isActive ELSE @]
             IN IF ~PhotoSchemaValid(valid, new.assets[1], new.category)
                THEN Fails(r, PhotoCatch(ValidationError, 400))
                ELSE Updates(r, photo, new)

\* PUT /api/press/:id: the images array, when given, replaces the stored one
updatePress(id, fields, images, category, isActive, valid) ==
  /\ CanReceive
  /\ Receive
  /\ NoStoreCall
  /\ LET r == Body("updatePress", id, 0, category, valid)
         found == FindById(records, "press", id)
         out == validateAndResolveCategory(category, categories)
     IN IF found = {}
        THEN Fails(r, GlobalErrorHandler(<<"Press article not found">>, env))
        ELSE IF "category" \in fields /\ ~out.ok
        THEN Fails(r, GlobalErrorHandler(out.error, env))
        ELSE LET press == CHOOSE x \in found : TRUE
                 new == [press EXCEPT
                           !.category = IF "category" \in fields
                                        THEN out.categoryDoc.id ELSE @,
                           !.assets = IF "assets" \in fields THEN images ELSE @,
                           !.isActive = IF "isActive" \in fields THEN isActive ELSE @]
             IN IF ~PressSchemaValid(valid, new.assets, new.category, categories)
                THEN Fails(r, GlobalErrorHandler(ValidationError, env))
                ELSE Updates(r, press, new)

\* PUT /api/videos/:id: the body goes to findByIdAndUpdate as it is, and the
\* update validators run on the paths it sets; an empty category is not looked
\* up by the handler and does not cast to an ObjectId
updateVideo(id, fields, publicId, category, isActive, valid) ==
  /\ CanReceive
  /\ Receive
  /\ NoStoreCall
  /\ LET r == Body("updateVideo", id, 0, category, valid)
         found == FindById(records, "video", id)
         lookedUp == "category" \in fields /\ category # ""
     IN IF found = {}
        THEN Fails(r, GlobalErrorHandler(<<"Video not found">>, env))
        ELSE IF lookedUp /\ ~IsObjectId(category)
        THEN Fails(r, GlobalErrorHandler(<<"Cast to ObjectId failed">>, env))
        ELSE IF lookedUp /\ FindOneByIdAndType(categories, category, "video") = NoDoc
        THEN Fails(r, GlobalErrorHandler(<<"Invalid video category">>, env))
        ELSE LET video == CHOOSE x \in found : TRUE
                 new == [video EXCEPT
                           !.category = IF "category" \in fields THEN category ELSE @,
                           !.assets[1] = IF "assets" \in fields THEN publicId ELSE @,
                           !.isActive = IF "isActive" \in fields THEN isActive ELSE @]
                 ok == /\ valid
                       /\ "category" \in fields =>
                            /\ IsObjectId(category)
                            /\ CategoryValidator(category, "video", categories)
                       /\ "assets" \in fields =>
                            /\ publicId # NoRef
                            /\ \A o \in records \ {video} :
                                 o.kind = "video" => o.assets[1] # publicId
             IN IF ~ok
                THEN Fails(r, GlobalErrorHandler(ValidationError, env))
                ELSE Updates(r, video, new)

-----------------------------------------------------------------------------
(* The video category operations *)

\* new category documents created in one behaviour
MaxNewCats == 1

CategoryOps == {"createVideoCategory", "updateVideoCategory", "deleteVideoCategory"}

\* the positions of the documents with that _id and type
CategoryAt(cats, id, type) ==
  {i \in 1..Len(cats) : cats[i].id = id /\ cats[i].type = type}

\* the collection without its i-th document
RemoveAt(cats, i) == [k \in 1..Len(cats) - 1 |-> IF k < i THEN cats[k] ELSE cats[k + 1]]

\* a handler that answers in its first step: the response, and no call pending
Answer(op, id, ok, response) ==
  /\ req' = [Idle EXCEPT !.op = op, !.id = id, !.pc = IF ok THEN "done" ELSE "failed"]
  /\ res' = response
  /\ uploads' = <<>>
  /\ dels' = <<>>

-----------------------------------------------------------------------------
(* Category resolution on its own, over every small Category collection *)

CategoryDocs == [id : {"c1", "c2", "c3"}, name : Names, type : Kinds]

DistinctIds(cats) ==
  \A i, j \in 1..Len(cats) : cats[i].id = cats[j].id => i = j

CategoryStores ==
  UNION {{cats \in [1..n -> CategoryDocs] : DistinctIds(cats)} : n \in 0..MaxCats}

InitResolve ==
  /\ env \in {"development", "production"}
  /\ categories \in CategoryStores
  /\ records = {}
  /\ blobs = {}
  /\ req = Idle
  /\ uploads = <<>>
  /\ completed = <<>>
  /\ dels = <<>>
  /\ res = NoRes
  /\ before = {}
  /\ nextRef = 1
  /\ nextId = 1
  /\ served = 0
  /\ nextCat = 4
  /\ wire = NoWire
  /\ destroyFailed = FALSE
  /\ inflight = [t \in Slots |-> NoHandler]
  /\ views = [id \in 1..MaxReqs + 1 |-> 0]
  /\ report = NoReport
  /\ resolved = NoResolved

\* one resolution as it is recorded: the collection it read, and whether the
\* same token was resolved for the same kind just before, with the collection
\* as it was then
Resolution(kind, category, out) ==
  LET again == /\ resolved.kind = kind
               /\ resolved.token = category
               /\ resolved.cats = categories
  IN [kind |-> kind, token |-> category, cats |-> categories, again |-> again,
      prevId |-> IF again THEN resolved.out.categoryId ELSE "",
      out |-> out]

\* a find-or-create resolution: a name that matches nothing is inserted
resolvePress_Upsert(category) ==
  LET out == validateAndResolveCategory(category, categories)
      doc == [id |-> CategoryIds[nextCat], name |-> category, type |-> "press"]
  IN IF out.ok \/ category = "" \/ nextCat >= 4 + MaxNewCats
     THEN /\ resolved' = Resolution("press", category, out)
          /\ UNCHANGED <<env, wire, destroyFailed, inflight, views, report, nextCat, categories, records, blobs, req, uploads,
                         completed, dels, res, before, nextRef, nextId, served>>
     ELSE /\ categories' = Append(categories, doc)
          /\ nextCat' = nextCat + 1
          /\ resolved' = Resolution("press", category,
                           [ok |-> TRUE, categoryDoc |-> doc,
                            categoryId |-> doc.id, error |-> NoError])
          /\ UNCHANGED <<env, wire, destroyFailed, inflight, views, report, records, blobs, req, uploads, completed, dels,
                         res, before, nextRef, nextId, served>>

\* validateAndResolveCategory(category) against the collection
resolvePress(category) ==
  /\ resolved' = Resolution("press", category,
                             validateAndResolveCategory(category, categories))
  /\ UNCHANGED <<env, wire, destroyFailed, inflight, views, report, nextCat, categories, records, blobs, req, uploads, completed, dels,
                 res, before, nextRef, nextId, served>>

\* the category resolution of uploadVideo against the collection
resolveVideo(category) ==
  /\ resolved' = Resolution("video", category,
                             uploadVideoCategory(category, categories))
  /\ UNCHANGED <<env, wire, destroyFailed, inflight, views, report, nextCat, categories, records, blobs, req, uploads, completed, dels,
                 res, before, nextRef, nextId, served>>

NextResolve ==
  \/ \E c \in Tokens : resolvePress(c)
  \/ \E c \in Tokens : resolveVideo(c)

SpecResolve == InitResolve /\ [][NextResolve]_vars

-----------------------------------------------------------------------------
(* Category resolution between the writes of the video category operations *)

\* POST /api/videos/categories
createVideoCategory(name) ==
  /\ CanReceive
  /\ Receive
  /\ IF name = ""
     THEN /\ Answer("createVideoCategory", 0, FALSE,
                    GlobalErrorHandler(<<"Category name is required">>, env))
          /\ UNCHANGED <<categories, nextCat>>
     ELSE /\ nextCat < 4 + MaxNewCats
          /\ categories' = Append(categories,
               [id |-> CategoryIds[nextCat], name |-> name, type |-> "video"])
          /\ nextCat' = nextCat + 1
          /\ Answer("createVideoCategory", 0, TRUE,
                    [status |-> 201, message |-> <<"Video category created successfully">>,
                     recordId |-> 0])
  /\ UNCHANGED <<env, records, blobs, nextRef, nextId, resolved>>

\* PUT /api/videos/categories/:id
updateVideoCategory(id, name) ==
  /\ CanReceive
  /\ Receive
  /\ LET at == CategoryAt(categories, id, "video")
     IN IF name = ""
        THEN /\ Answer("updateVideoCategory", 0, FALSE,
                       GlobalErrorHandler(<<"Category name is required">>, env))
             /\ UNCHANGED categories
        ELSE IF at = {}
        THEN /\ Answer("updateVideoCategory", 0, FALSE,
                       GlobalErrorHandler(<<"Video category not found">>, env))
             /\ UNCHANGED categories
        ELSE /\ categories' = [categories EXCEPT ![Min(at)].name = name]
             /\ Answer("updateVideoCategory", 0, TRUE,
                       [status |-> 200, message |-> <<"Video category updated successfully">>,
                        recordId |-> 0])
  /\ UNCHANGED <<env, nextCat, records, blobs, nextRef, nextId, resolved>>

\* a deletion that does not look for the videos of the category
deleteVideoCategory_Unchecked(id) ==
  /\ CanReceive
  /\ Receive
  /\ LET at == CategoryAt(categories, id, "video")
     IN IF at = {}
        THEN /\ Answer("deleteVideoCategory", 0, FALSE,
                       GlobalErrorHandler(<<"Video category not found">>, env))
             /\ UNCHANGED categories
        ELSE /\ categories' = RemoveAt(categories, Min(at))
             /\ Answer("deleteVideoCategory", 0, TRUE,
                       [status |-> 200, message |-> <<"Video category deleted successfully">>,
                        recordId |-> 0])
  /\ UNCHANGED <<env, nextCat, records, blobs, nextRef, nextId, resolved>>

\* DELETE /api/videos/categories/:id
deleteVideoCategory(id) ==
  /\ CanReceive
  /\ Receive
  /\ LET at == CategoryAt(categories, id, "video")
         isUsed == {r \in records : r.kind = "video" /\ r.category = id}
     IN IF at = {}
        THEN /\ Answer("deleteVideoCategory", 0, FALSE,
                       GlobalErrorHandler(<<"Video category not found">>, env))
             /\ UNCHANGED categories
        ELSE IF isUsed # {}
        THEN /\ Answer("deleteVideoCategory", 0, FALSE,
                       GlobalErrorHandler(
                         <<"Cannot delete category that is currently in use by videos">>, env))
             /\ UNCHANGED categories
        ELSE /\ categories' = RemoveAt(categories, Min(at))
             /\ Answer("deleteVideoCategory", 0, TRUE,
                       [status |-> 200, message |-> <<"Video category deleted successfully">>,
                        recordId |-> 0])
  /\ UNCHANGED <<env, nextCat, records, blobs, nextRef, nextId, resolved>>

NextCategories ==
  \/ \E c \in Tokens \cup {"c4"} : resolvePress(c)
  \/ \E c \in Tokens \cup {"c4"} : resolveVideo(c)
  \/ \E n \in {"", "news", "talks"} : createVideoCategory(n)
  \/ \E id \in {"c1", "c2", "c4"}, n \in {"", "news", "talks"} : updateVideoCategory(id, n)
  \/ \E id \in {"c1", "c2", "c4"} : deleteVideoCategory(id)

SpecCategories == Init /\ [][NextCategories]_vars

-----------------------------------------------------------------------------
(* The upload middleware of the routes *)

\* file parts of one request in the routes' specification
MaxBlobs == 2

UploadRoutes == {"photos/upload", "press/upload", "press/upload-multiple", "videos/upload"}

\* the media types of the model: the ones that start with "image/" and with "video/"
ImageTypes == {"image/png", "image/svg+xml"}
VideoTypes == {"video/mp4", "video/ogg"}

allowedImageTypes ==
  {"image/jpeg", "image/jpg", "image/png", "image/webp", "image/gif", "image/bmp",
   "image/tiff"}
allowedVideoTypes ==
  {"video/mp4", "video/mov", "video/avi", "video/wmv", "video/flv", "video/webm",
   "video/mkv"}

\* multer's limits.files of each configuration (0: no limit set)
PressFilesLimit == 1
VideoFilesLimit == 2
PhotoFilesLimit == 0

\* the maxCount of .array("images", 5)
PressArrayMaxCount == 5

MulterError(code) == [name |-> "MulterError", code |-> code, message |-> <<code>>]
Error(message) == [name |-> "Error", code |-> "", message |-> message]

\* fileFilter of pressUploadConfig
pressImageFileFilter(file) ==
  IF file.mimetype \in ImageTypes
  THEN IF file.mimetype \in allowedImageTypes THEN NoMulterError
       ELSE Error(<<"Image format ", file.mimetype, " not supported">>)
  ELSE Error(<<"Only image files are allowed for press articles">>)

\* fileFilter of videoUploadConfig
videoFileFilter(file) ==
  IF file.fieldname = "video"
  THEN IF file.mimetype \in VideoTypes
       THEN IF file.mimetype \in allowedVideoTypes THEN NoMulterError
            ELSE Error(<<"Video format ", file.mimetype, " not supported">>)
       ELSE Error(<<"Video file is required for video field">>)
  ELSE IF file.fieldname = "thumbnail"
  THEN IF file.mimetype \in ImageTypes
       THEN IF file.mimetype \in allowedImageTypes THEN NoMulterError
            ELSE Error(<<"Image format ", file.mimetype, " not supported">>)
       ELSE Error(<<"Image file is required for thumbnail field">>)
  ELSE Error(<<"Unexpected field name">>)

\* fileFilter of the photo router's own multer instance: any image type passes
photoFileFilter(file) ==
  IF file.mimetype \in ImageTypes THEN NoMulterError
  ELSE Error(<<"Only image files are allowed">>)

FileFilter(route, file) ==
  CASE route = "photos/upload" -> photoFileFilter(file)
    [] route = "videos/upload" -> videoFileFilter(file)
    [] OTHER -> pressImageFileFilter(file)

\* the fields each route declares, with their maxCount
MaxCount(route, fieldname) ==
  CASE route = "photos/upload" /\ fieldname = "photo" -> 1
    [] route = "press/upload" /\ fieldname = "image" -> 1
    [] route = "press/upload-multiple" /\ fieldname = "images" -> PressArrayMaxCount
    [] route = "videos/upload" /\ fieldname \in {"video", "thumbnail"} -> 1
    [] OTHER -> 0

FilesLimit(route) ==
  CASE route = "photos/upload" -> PhotoFilesLimit
    [] route = "videos/upload" -> VideoFilesLimit
    [] OTHER -> PressFilesLimit

\* the number of parts of that field among the first k
CountOf(files, k, fieldname) ==
  Cardinality({i \in 1..k : files[i].fieldname = fieldname})

\* what stops the k-th file part, if anything: the parser's limit on the number
\* of files, then the count left for the part's field, then the fileFilter
PartError(route, files, k) ==
  IF FilesLimit(route) > 0 /\ k > FilesLimit(route)
  THEN MulterError("LIMIT_FILE_COUNT")
  ELSE IF CountOf(files, k, files[k].fieldname) > MaxCount(route, files[k].fieldname)
  THEN MulterError("LIMIT_UNEXPECTED_FILE")
  ELSE FileFilter(route, files[k])

\* the middleware's verdict on the request: the error of the first part that
\* is stopped aborts the whole request
Multer(route, files) ==
  LET stopped == {k \in 1..Len(files) : PartError(route, files, k) # NoMulterError}
  IN IF stopped = {} THEN NoMulterError ELSE PartError(route, files, Min(stopped))

\* error.message.includes(word), for the words handleMulterError looks for
Includes(message, word) ==
  CASE word = "not supported" -> message[Len(message)] = " not supported"
    [] word = "required" ->
         message[1] \in {"Video file is required for video field",
                         "Image file is required for thumbnail field"}
    [] word = "Only" ->
         message[1] \in {"Only image files are allowed for press articles",
                         "Only image files are allowed"}
    [] OTHER -> FALSE

\* handleMulterError: its response, or status 0 when it passes the error on
handleMulterError(error) ==
  IF error.name = "MulterError"
  THEN CASE error.code = "LIMIT_FILE_SIZE" ->
              [status |-> 400, message |-> <<"File size too large">>, recordId |-> 0]
         [] error.code = "LIMIT_FILE_COUNT" ->
              [status |-> 400, message |-> <<"Too many files">>, recordId |-> 0]
         [] error.code = "LIMIT_UNEXPECTED_FILE" ->
              [status |-> 400, message |-> <<"Unexpected field">>, recordId |-> 0]
         [] OTHER ->
              [status |-> 400, message |-> <<"File upload error">>, recordId |-> 0]
  ELSE IF \/ Includes(error.message, "not supported")
          \/ Includes(error.message, "required")
          \/ Includes(error.message, "Only")
  THEN [status |-> 400, message |-> <<"Invalid file type">>, recordId |-> 0]
  ELSE NoRes

\* the response to an error of the upload middleware: the photo router mounts
\* no handleMulterError, and what handleMulterError passes on reaches the
\* application's first error middleware
MulterErrorResponse(route, error, nodeEnv) ==
  IF route # "photos/upload" /\ handleMulterError(error) # NoRes
  THEN handleMulterError(error)
  ELSE GlobalErrorHandler(error.message, nodeEnv)

\* a part whose media type is outside the list of its field on that route
Disallowed(route, file) ==
  CASE route = "photos/upload" -> file.mimetype \notin ImageTypes
    [] route = "videos/upload" /\ file.fieldname = "video" ->
         file.mimetype \notin allowedVideoTypes
    [] OTHER -> file.mimetype \notin allowedImageTypes

\* the multipart request reaches the route: the middleware parses it, and
\* either hands it to the controller or answers with the error
Multipart(route, files) ==
  /\ CanReceive
  /\ wire.seq # served + 1
  /\ LET error == Multer(route, files)
         sent == [f \in FieldNames |-> CountOf(files, Len(files), f)]
     IN /\ wire' = [seq |-> served + 1, route |-> route, sent |-> sent,
                    accepted |-> IF error = NoMulterError THEN sent
                                 ELSE [f \in FieldNames |-> 0],
                    disallowed |-> \E k \in 1..Len(files) : Disallowed(route, files[k]),
                    error |-> error]
        /\ IF error = NoMulterError
           THEN UNCHANGED <<req, res, uploads, dels, completed, before, served>>
           ELSE /\ req' = [Idle EXCEPT !.pc = "failed"]
                /\ res' = MulterErrorResponse(route, error, env)
                /\ uploads' = <<>>
                /\ dels' = <<>>
                /\ completed' = <<>>
                /\ before' = records
                /\ served' = served + 1
  /\ UNCHANGED <<env, destroyFailed, inflight, views, report, nextCat, categories, records,
                 blobs, nextRef, nextId,
                 resolved>>

\* the controller of the route runs on what the middleware handed over
Parsed(route) == wire.seq = served + 1 /\ wire.route = route

FileLists(fieldnames, mimetypes, n) ==
  UNION {[1..k -> {File(f, m) : f \in fieldnames, m \in mimetypes}] : k \in 0..n}

\* the multipart requests of the routes' specification
PhotoRequests == FileLists({"photo", "other"}, {"image/png", "image/svg+xml", "text/plain"}, MaxBlobs)
PressRequests == FileLists({"image", "other"}, {"image/png", "image/svg+xml", "text/plain"}, MaxBlobs)
PressMultipleRequests ==
  FileLists({"images", "other"}, {"image/png", "image/svg+xml", "text/plain"}, MaxBlobs)
    \cup {[i \in 1..k |-> File("images", "image/png")] : k \in 0..PressArrayMaxCount + 1}
VideoRequests ==
  FileLists({"video", "thumbnail", "other"},
            {"video/mp4", "video/ogg", "image/png", "text/plain"}, MaxBlobs)
    \cup {<<File("video", "video/mp4"), File("thumbnail", "image/png"), x>> :
            x \in {File("video", "video/mp4"), File("thumbnail", "image/png"),
                   File("other", "image/png")}}

RouteTokens == {"", "news", "talks", "events", "c2"}

NextRoutes ==
  \/ \E files \in PhotoRequests : Multipart("photos/upload", files)
  \/ \E files \in PressRequests : Multipart("press/upload", files)
  \/ \E files \in PressMultipleRequests : Multipart("press/upload-multiple", files)
  \/ \E files \in VideoRequests : Multipart("videos/upload", files)
  \/ \E c \in RouteTokens, v \in BOOLEAN :
       Parsed("photos/upload") /\ uploadPhoto(wire.accepted["photo"], c, v)
  \/ \E c \in RouteTokens, v \in BOOLEAN :
       Parsed("press/upload") /\ uploadPress(wire.accepted["image"], c, v)
  \/ \E c \in RouteTokens, v \in BOOLEAN :
       Parsed("press/upload-multiple")
         /\ uploadMultiplePress(wire.accepted["images"], c, v)
  \/ \E c \in RouteTokens, v \in BOOLEAN :
       Parsed("videos/upload")
         /\ uploadVideo(wire.accepted["video"], wire.accepted["thumbnail"] > 0, c, v)
  \/ \E i \in 1..Len(uploads), ok \in BOOLEAN : UploadSettles(i, ok)
  \/ Persist

SpecRoutes == Init /\ [][NextRoutes]_vars

-----------------------------------------------------------------------------
(* The records under creation, update and the category operations *)

\* the bodies of the create and update requests
BodyTokens == {"", "c1", "c2", "news", "events"}
BodyImages == {Images(n) : n \in {0, 1, MaxPressImages, MaxPressImages + 1}}

NextRecords ==
  \/ \E c \in {"events", "c3"} : uploadPhoto(1, c, TRUE)
  \/ \E c \in {"news", "c2"} : uploadPress(1, c, TRUE)
  \/ \E c \in {"c1", "talks"} : uploadMultiplePress(1, c, TRUE)
  \/ \E t \in BOOLEAN, c \in {"talks", "c1"} : uploadVideo(1, t, c, TRUE)
  \/ \E i \in 1..Len(uploads) : UploadSettles(i, TRUE)
  \/ Persist
  \/ \E p \in {NoRef, Ref(1)}, c \in BodyTokens, v \in BOOLEAN : createPhoto(p, c, v)
  \/ \E im \in BodyImages, c \in BodyTokens, v \in BOOLEAN : createPress(im, c, v)
  \/ \E p \in {NoRef, Ref(1)}, t \in {NoRef, Ref(3)}, c \in BodyTokens,
        v \in BOOLEAN : createVideo(p, t, c, v)
  \/ \E id \in 1..nextId, f \in SUBSET {"category", "isActive"}, c \in BodyTokens :
        updatePhoto(id, f, c, FALSE, TRUE)
  \/ \E id \in 1..nextId, f \in SUBSET UpdateFields, c \in BodyTokens,
        im \in {Images(2), Images(MaxPressImages + 1)} :
          updatePress(id, f, im, c, FALSE, TRUE)
  \/ \E id \in 1..nextId, f \in SUBSET UpdateFields, c \in BodyTokens,
        p \in {NoRef, Ref(2)} : updateVideo(id, f, p, c, FALSE, TRUE)
  \/ \E n \in {"", "news", "talks"} : createVideoCategory(n)
  \/ \E id \in {"c1", "c2", "c4"}, n \in {"", "news"} : updateVideoCategory(id, n)
  \/ \E id \in {"c1", "c2", "c4"} : deleteVideoCategory(id)

SpecRecords == Init /\ [][NextRecords]_vars

-----------------------------------------------------------------------------
(* deleteVideoCategory interleaved with createVideo and uploadVideo *)

\* an interleaved handler changes its own slot and what its step writes
Frame ==
  UNCHANGED <<env, req, uploads, completed, dels, res, before, served, nextCat, wire,
              destroyFailed, views, report, resolved>>

\* the handler of slot t goes on as h
Goes(t, h) == inflight' = [inflight EXCEPT ![t] = h]

\* the handler of slot t throws: the error middleware answers
Throws(t) == Goes(t, [inflight[t] EXCEPT !.pc = "failed", !.status = 500])

\* the unique index on publicId of the videos collection
UniquePublicId(publicId, recs) ==
  \A r \in recs : r.kind = "video" => r.assets[1] # publicId

\* POST /api/videos arrives: the required fields are checked
CreateVideoArrives(t, publicId, thumbnailPublicId, category) ==
  /\ inflight[t].pc = "idle"
  /\ LET h == [NoHandler EXCEPT !.op = "createVideo", !.ref = publicId,
                                !.thumbnail = thumbnailPublicId, !.category = category]
     IN IF category = "" \/ publicId = NoRef
        THEN Goes(t, [h EXCEPT !.pc = "failed", !.status = 500])
        ELSE Goes(t, [h EXCEPT !.pc = "lookup"])
  /\ Frame
  /\ UNCHANGED <<categories, records, blobs, nextRef, nextId>>

\* createVideo: await CategoryModel.findOne({ _id: category, type: "video" })
CreateVideoLooksUp(t) ==
  /\ inflight[t].op = "createVideo"
  /\ inflight[t].pc = "lookup"
  /\ IF ~IsObjectId(inflight[t].category)
        \/ FindOneByIdAndType(categories, inflight[t].category, "video") = NoDoc
     THEN Throws(t)
     ELSE Goes(t, [inflight[t] EXCEPT !.pc = "validating"])
  /\ Frame
  /\ UNCHANGED <<categories, records, blobs, nextRef, nextId>>

\* POST /api/videos/upload arrives with its video file (the thumbnail is derived):
\* the category is resolved by _id or by name
UploadVideoArrives(t, category) ==
  /\ inflight[t].pc = "idle"
  /\ LET h == [NoHandler EXCEPT !.op = "uploadVideo", !.category = category]
     IN Goes(t, [h EXCEPT !.pc = "resolving"])
  /\ Frame
  /\ UNCHANGED <<categories, records, blobs, nextRef, nextId>>

\* uploadVideo: the awaited category lookup
UploadVideoResolves(t) ==
  /\ inflight[t].op = "uploadVideo"
  /\ inflight[t].pc = "resolving"
  /\ LET out == uploadVideoCategory(inflight[t].category, categories)
     IN IF ~out.ok
        THEN Throws(t)
        ELSE Goes(t, [inflight[t] EXCEPT !.pc = "uploading", !.category = out.categoryId])
  /\ Frame
  /\ UNCHANGED <<categories, records, blobs, nextRef, nextId>>

\* uploadVideo: the awaited upload of the video, then of the derived thumbnail
UploadVideoStores(t, ok) ==
  /\ inflight[t].op = "uploadVideo"
  /\ inflight[t].pc \in {"uploading", "thumbnail"}
  /\ IF ~ok
     THEN /\ Throws(t)
          /\ UNCHANGED <<blobs, nextRef>>
     ELSE IF inflight[t].pc = "uploading"
     THEN /\ blobs' = blobs \cup {Blob(Ref(nextRef), "video")}
          /\ nextRef' = nextRef + 1
          /\ Goes(t, [inflight[t] EXCEPT !.pc = "thumbnail", !.ref = Ref(nextRef)])
     ELSE /\ blobs' = blobs \cup {Blob(ThumbnailOf(inflight[t].ref), "video")}
          /\ UNCHANGED nextRef
          /\ Goes(t, [inflight[t] EXCEPT !.pc = "validating",
                                         !.thumbnail = ThumbnailOf(inflight[t].ref)])
  /\ Frame
  /\ UNCHANGED <<categories, records, nextId>>

\* VideoModel.create, first part: the validators run, the one of the category
\* path with its own query on the Category collection
VideoValidates(t) ==
  /\ inflight[t].op \in {"createVideo", "uploadVideo"}
  /\ inflight[t].pc = "validating"
  /\ IF CategoryValidator(inflight[t].category, "video", categories)
     THEN Goes(t, [inflight[t] EXCEPT !.pc = "inserting"])
     ELSE Throws(t)
  /\ Frame
  /\ UNCHANGED <<categories, records, blobs, nextRef, nextId>>

\* VideoModel.create, second part: the document is inserted, and the handler
\* answers
VideoInserts(t) ==
  /\ inflight[t].op \in {"createVideo", "uploadVideo"}
  /\ inflight[t].pc = "inserting"
  /\ IF UniquePublicId(inflight[t].ref, records)
     THEN /\ records' = records \cup
               {Record(nextId, "video", inflight[t].category,
                       <<inflight[t].ref, inflight[t].thumbnail>>)}
          /\ nextId' = nextId + 1
          /\ Goes(t, [inflight[t] EXCEPT !.pc = "done", !.id = nextId, !.status = 201])
     ELSE /\ Throws(t)
          /\ UNCHANGED <<records, nextId>>
  /\ Frame
  /\ UNCHANGED <<categories, blobs, nextRef>>

\* DELETE /api/videos/categories/:id arrives
DeleteVideoCategoryArrives(t, id) ==
  /\ inflight[t].pc = "idle"
  /\ Goes(t, [NoHandler EXCEPT !.op = "deleteVideoCategory", !.category = id,
                               !.pc = "finding"])
  /\ Frame
  /\ UNCHANGED <<categories, records, blobs, nextRef, nextId>>

\* deleteVideoCategory: await CategoryModel.findOne({ _id, type: "video" })
DeleteVideoCategoryFinds(t) ==
  /\ inflight[t].op = "deleteVideoCategory"
  /\ inflight[t].pc = "finding"
  /\ IF CategoryAt(categories, inflight[t].category, "video") = {}
     THEN Throws(t)
     ELSE Goes(t, [inflight[t] EXCEPT !.pc = "checking"])
  /\ Frame
  /\ UNCHANGED <<categories, records, blobs, nextRef, nextId>>

\* deleteVideoCategory: await VideoModel.findOne({ category: id })
DeleteVideoCategoryChecks(t) ==
  /\ inflight[t].op = "deleteVideoCategory"
  /\ inflight[t].pc = "checking"
  /\ IF \E r \in records : r.kind = "video" /\ r.category = inflight[t].category
     THEN Throws(t)
     ELSE Goes(t, [inflight[t] EXCEPT !.pc = "deleting"])
  /\ Frame
  /\ UNCHANGED <<categories, records, blobs, nextRef, nextId>>

\* deleteVideoCategory: await CategoryModel.findByIdAndDelete(id), and the answer
DeleteVideoCategoryDeletes(t) ==
  /\ inflight[t].op = "deleteVideoCategory"
  /\ inflight[t].pc = "deleting"
  /\ LET at == {i \in 1..Len(categories) : categories[i].id = inflight[t].category}
     IN categories' = IF at = {} THEN categories ELSE RemoveAt(categories, Min(at))
  /\ Goes(t, [inflight[t] EXCEPT !.pc = "done", !.status = 200])
  /\ Frame
  /\ UNCHANGED <<records, blobs, nextRef, nextId>>

NextRace ==
  \/ \E t \in Slots, p \in {NoRef, Ref(1)}, c \in {"", "c2", "c9", "talks"} :
        CreateVideoArrives(t, p, NoRef, c)
  \/ \E t \in Slots : CreateVideoLooksUp(t)
  \/ \E t \in Slots, c \in {"c2", "talks", "news"} : UploadVideoArrives(t, c)
  \/ \E t \in Slots : UploadVideoResolves(t)
  \/ \E t \in Slots, ok \in BOOLEAN : UploadVideoStores(t, ok)
  \/ \E t \in Slots : VideoValidates(t)
  \/ \E t \in Slots : VideoInserts(t)
  \/ \E t \in Slots, id \in {"c1", "c2", "c9"} : DeleteVideoCategoryArrives(t, id)
  \/ \E t \in Slots : DeleteVideoCategoryFinds(t)
  \/ \E t \in Slots : DeleteVideoCategoryChecks(t)
  \/ \E t \in Slots : DeleteVideoCategoryDeletes(t)

SpecRace == Init /\ [][NextRace]_vars

-----------------------------------------------------------------------------
(* Deletion of a list of images *)

\* public ids in the body of one deleteMultipleImages request
MaxIds == 2

\* deleteResults.filter: the indices of the settled promises whose destroy call
\* returned "ok", and of the others, in order
Succeeded(ds) == SelectSeq([i \in 1..Len(ds) |-> i], LAMBDA i : ds[i].st = "ok")
NotSucceeded(ds) == SelectSeq([i \in 1..Len(ds) |-> i], LAMBDA i : ds[i].st # "ok")

\* deleteResults, and the data of the response: a promise is fulfilled when the
\* destroy call returned ("ok" or "not found") and rejected when it threw
DeleteResults(publicIds, ds) ==
  LET successful == Succeeded(ds)
      failed == NotSucceeded(ds)
  IN [successful |-> [k \in 1..Len(successful) |->
                        [publicId |-> publicIds[successful[k]], result |-> "ok"]],
      failed |-> [k \in 1..Len(failed) |->
                    [publicId |-> publicIds[k],
                     error |-> IF ds[failed[k]].st = "failed" THEN StoreError
                               ELSE <<"Deletion failed">>]],
      totalRequested |-> Len(publicIds),
      successCount |-> Len(successful),
      failedCount |-> Len(failed)]

\* DELETE /api/cloudinary/delete-multiple, up to Promise.allSettled: every
\* destroy call is started
deleteMultipleImages(publicIds) ==
  /\ CanReceive
  /\ Arrive
  /\ uploads' = <<>>
  /\ LET r == [Idle EXCEPT !.op = "deleteMultipleImages", !.nfiles = Len(publicIds)]
     IN IF Len(publicIds) = 0
        THEN /\ req' = [r EXCEPT !.pc = "failed"]
             /\ res' = GlobalErrorHandler(<<"Public IDs array is required">>, env)
             /\ dels' = <<>>
        ELSE /\ req' = [r EXCEPT !.pc = "deleting"]
             /\ res' = NoRes
             /\ dels' = [i \in 1..Len(publicIds) |-> Destroy("pending", publicIds[i], "image")]

\* deleteMultipleImages after Promise.allSettled: the response
Reports ==
  /\ req.pc = "reporting"
  /\ report' = DeleteResults([i \in 1..Len(dels) |-> dels[i].ref], dels)
  /\ req' = [req EXCEPT !.pc = "done"]
  /\ res' = [status |-> 200, message |-> <<"Deleted images">>, recordId |-> 0]
  /\ UNCHANGED <<env, wire, destroyFailed, inflight, views, nextCat, categories, records,
                 blobs, uploads, completed, dels, before, nextRef, nextId, served, resolved>>

\* the lists of at most n public ids
IdLists(n) == UNION {[1..k -> {Ref(1), Ref(2), Ref(3)}] : k \in 0..n}

NextBatch ==
  \/ \E n \in 1..MaxFiles : uploadMultiplePress(n, "c1", TRUE)
  \/ \E i \in 1..Len(uploads) : UploadSettles(i, TRUE)
  \/ Persist
  \/ \E ids \in IdLists(MaxIds) : deleteMultipleImages(ids)
  \/ \E i \in 1..Len(dels), o \in {"ok", "throw"} : DestroySettles(i, o)
  \/ Reports

SpecBatch == Init /\ [][NextBatch]_vars

-----------------------------------------------------------------------------
(* getPhoto requests served at the same time *)

\* what a step of getPhoto leaves alone, besides its slot and the views
ReadFrame ==
  UNCHANGED <<env, req, uploads, completed, dels, res, before, served, nextCat, wire,
              destroyFailed, report, resolved, categories, records, blobs, nextRef, nextId>>

\* the catch block of getPhoto
GetPhotoCatches(t) == Goes(t, [inflight[t] EXCEPT !.pc = "failed", !.status = 404])

\* GET /api/photos/:id arrives
GetPhotoArrives(t, id) ==
  /\ inflight[t].pc = "idle"
  /\ Goes(t, [NoHandler EXCEPT !.op = "getPhoto", !.id = id, !.pc = "finding"])
  /\ ReadFrame
  /\ UNCHANGED views

\* getPhoto: await PhotoModel.findById, the check, and photo.views += 1 on the
\* document in memory
GetPhotoFinds(t) ==
  /\ inflight[t].op = "getPhoto"
  /\ inflight[t].pc = "finding"
  /\ LET found == FindById(records, "photo", inflight[t].id)
     IN IF found = {} \/ \E photo \in found : ~photo.isActive
        THEN GetPhotoCatches(t)
        ELSE Goes(t, [inflight[t] EXCEPT !.pc = "saving",
                                         !.seen = views[inflight[t].id] + 1])
  /\ ReadFrame
  /\ UNCHANGED views

\* getPhoto: await photo.save(), which sets the views path to the value of the
\* document in memory, and the response
GetPhotoSaves(t) ==
  /\ inflight[t].op = "getPhoto"
  /\ inflight[t].pc = "saving"
  /\ IF FindById(records, "photo", inflight[t].id) = {}
     THEN /\ GetPhotoCatches(t)
          /\ UNCHANGED views
     ELSE /\ views' = [views EXCEPT ![inflight[t].id] = inflight[t].seen]
          /\ Goes(t, [inflight[t] EXCEPT !.pc = "done", !.status = 200])
  /\ ReadFrame

NextViews ==
  \/ \E c \in {"events", "zz"} : createPhoto(Ref(1), c, TRUE)
  \/ \E id \in 1..nextId : updatePhoto(id, {"isActive"}, "", FALSE, TRUE)
  \/ \E t \in Slots, id \in 1..MaxReqs : GetPhotoArrives(t, id)
  \/ \E t \in Slots : GetPhotoFinds(t)
  \/ \E t \in Slots : GetPhotoSaves(t)

SpecViews == Init /\ [][NextViews]_vars

-----------------------------------------------------------------------------
(* Properties *)

UploadsIn(st) == {i \in 1..Len(uploads) : uploads[i].st = st}

\* the destroy calls the request has issued so far
DestroyCalls == {dels[j].ref : j \in {k \in 1..Len(dels) : dels[k].st # "idle"}}

\* the record a delete request is aimed at, as it was when the request arrived
Target == FindById(before, KindOf(req.op), req.id)

\* the category token of the request resolves to a category of the request's kind
CategoryResolves ==
  CASE KindOf(req.op) = "photo" -> req.category \in PhotoCategories
    [] KindOf(req.op) = "press" -> validateAndResolveCategory(req.category, categories).ok
    [] OTHER -> uploadVideoCategory(req.category, categories).ok

\* C1: when an upload request has failed because one of its uploads failed, a
\* destroy call has been issued for every upload of the request that succeeded,
\* and the response is an error.
C1_FailedUploadIsCompensated ==
  (req.op \in UploadOps /\ req.pc = "failed" /\ UploadsIn("failed") # {})
    => /\ \A i \in UploadsIn("ok") : uploads[i].ref \in DestroyCalls
       /\ res.status >= 400

\* C2: once an upload of a create request has failed, the request is over
\* without Model.create having been called and the record store is as it was
\* when the request arrived.
C2_NoRecordAfterFailedUpload ==
  (req.op \in UploadOps /\ UploadsIn("failed") # {})
    => /\ req.pc = "failed"
       /\ ~req.createCalled
       /\ records = before
       /\ res.status >= 400

\* C2 witness: a multi-image request failed with one upload stored and one failed
C2_Witness ==
  /\ req.op = "uploadMultiplePress"
  /\ req.pc = "failed"
  /\ UploadsIn("failed") # {}
  /\ UploadsIn("ok") # {}

\* C3: when every upload of a request succeeded and Model.create then failed,
\* the failed request has issued a destroy call for every blob it uploaded.
C3_FailedPersistIsCompensated ==
  (req.op \in UploadOps /\ req.pc = "failed" /\ req.createCalled)
    => \A i \in 1..Len(uploads) : uploads[i].ref \in DestroyCalls

\* C4: a delete request aimed at an existing record ends with the record gone
\* from the record store and a success response, whichever destroy calls threw.
C4_DeleteRemovesRecord ==
  (req.op \in DeleteOps /\ Terminal /\ Target # {})
    => /\ FindById(records, KindOf(req.op), req.id) = {}
       /\ res.status = 200

\* C5: a delete request aimed at an existing record ends with a destroy call
\* issued for every blob attached to the record, even when another one threw.
C5_EveryBlobGetsDestroyCall ==
  (req.op \in DeleteOps /\ Terminal /\ Target # {})
    => \A r \in Target : \A i \in 1..Len(r.assets) : r.assets[i] \in DestroyCalls

\* C6: a delete request for an id with no record ends with the not-found
\* status (404, not the 500 of a server failure), no destroy call and the
\* record store unchanged.
C6_DeleteAbsentIsNotFound ==
  (req.op \in DeleteOps /\ Terminal /\ Target = {})
    => /\ res.status = 404
       /\ dels = <<>>
       /\ records = before

\* C7: when uploadMultiplePress is done, the record it persisted has exactly
\* one asset per input file and asset i is the blob stored by the upload of
\* input file i, whatever the order in which the uploads completed.
C7_AssetsInInputOrder ==
  (req.op = "uploadMultiplePress" /\ req.pc = "done")
    => \E r \in records :
         /\ r.id = res.recordId
         /\ r.kind = "press"
         /\ Len(r.assets) = req.nfiles
         /\ \A i \in 1..req.nfiles :
              /\ uploads[i].st = "ok"
              /\ r.assets[i] = uploads[i].ref
              /\ Blob(r.assets[i], "image") \in blobs

\* C7 witness: a two-image request is done whose second upload completed first
C7_Witness ==
  /\ req.op = "uploadMultiplePress"
  /\ req.pc = "done"
  /\ req.nfiles = 2
  /\ completed = <<2, 1>>

\* C8: an upload request whose category token does not resolve to a category
\* of its kind issues no upload call at all, and ends failed.
C8_NoUploadBeforeCategory ==
  (req.op \in UploadOps /\ ~CategoryResolves)
    => /\ uploads = <<>>
       /\ req.pc = "failed"


\* the categories of `type` whose identifier, resp. name, is the token
WithId(token, type) ==
  {i \in 1..Len(categories) : categories[i].id = token /\ categories[i].type = type}
WithName(token, type) ==
  {i \in 1..Len(categories) : categories[i].name = token /\ categories[i].type = type}

\* C9: resolving a token for kind K yields the category of kind K with that
\* identifier if there is one, otherwise a category of kind K with that name,
\* and fails if there is neither; an identifier it returns is always the _id of
\* a category of kind K.
C9_ResolvesByIdThenName ==
  resolved.kind \in {"press", "video"} =>
    LET t == resolved.token
        K == resolved.kind
        out == resolved.out
    IN /\ WithId(t, K) # {} =>
            /\ out.ok
            /\ out.categoryDoc.id = t /\ out.categoryDoc.type = K
            /\ out.categoryId = t
       /\ (WithId(t, K) = {} /\ WithName(t, K) # {}) =>
            /\ out.ok
            /\ out.categoryDoc.name = t /\ out.categoryDoc.type = K
            /\ out.categoryId = out.categoryDoc.id
       /\ (WithId(t, K) = {} /\ WithName(t, K) = {}) => ~out.ok
       /\ out.ok => WithId(out.categoryId, K) # {}
       /\ out.ok => \E i \in 1..Len(categories) : categories[i] = out.categoryDoc

\* C9 witness: a token that reads like an identifier, and is the identifier of
\* a video category, resolved for press by name
C9_Witness ==
  /\ resolved.kind = "press"
  /\ resolved.token = "c2"
  /\ WithId("c2", "video") # {}
  /\ resolved.out.ok
  /\ resolved.out.categoryId # "c2"

\* the collection without the document of that identifier
RECURSIVE Without(_, _)
Without(cats, id) ==
  IF cats = <<>> THEN <<>>
  ELSE IF Head(cats).id = id THEN Without(Tail(cats), id)
  ELSE <<Head(cats)>> \o Without(Tail(cats), id)

\* the token is the identifier of a category of another kind than the one asked for
OfAnotherKind ==
  /\ resolved.kind \in {"press", "video"}
  /\ IsObjectId(resolved.token)
  /\ FindOneById(categories, resolved.token) # NoDoc
  /\ FindOneById(categories, resolved.token).type # resolved.kind

\* what the same resolution yields when the collection holds no document of
\* that identifier at all
NoMatchOutcome ==
  ResolveFor(resolved.kind, resolved.token, Without(categories, resolved.token))

\* C10 as stated: resolving the identifier of a category of another kind fails
\* with an outcome that differs from the one returned when nothing matches.
C10_MismatchIsDistinct ==
  (OfAnotherKind /\ WithName(resolved.token, resolved.kind) = {})
    => (~resolved.out.ok /\ resolved.out # NoMatchOutcome)

\* C10 as amended: resolving the identifier of a category of another kind,
\* when no category of the requested kind carries the token as its name, fails
\* with the very outcome returned when no category matches at all (the
\* "Invalid <kind> category" error); there is no separate mismatch outcome.
C10_MismatchIsGenericFailure ==
  (OfAnotherKind /\ WithName(resolved.token, resolved.kind) = {})
    => /\ ~resolved.out.ok
       /\ resolved.out = NoMatchOutcome
       /\ resolved.out.error[1] \in {"Invalid press category: ", "Invalid video category: "}

\* C10 witness: the identifier of a photo category was resolved for press, and failed
C10_Witness ==
  /\ OfAnotherKind
  /\ resolved.kind = "press"
  /\ FindOneById(categories, resolved.token).type = "photo"
  /\ ~resolved.out.ok

\* C11: a resolution step changes neither the Category collection nor the
\* record store (nor the object store), and a token resolved again for the
\* same kind, the collection being as it was at the first resolution, yields
\* the same outcome and the same category identifier as the first time.
C11_ResolutionIsReadOnlyAndIdempotent ==
  [][(resolved' # resolved) =>
       /\ categories' = categories
       /\ records' = records
       /\ blobs' = blobs
       /\ nextCat' = nextCat
       /\ resolved'.again =>
            /\ resolved'.out.ok = resolved.out.ok
            /\ resolved'.out.categoryId = resolved.out.categoryId
            /\ resolved'.out.categoryId = resolved'.prevId]_vars

\* C11 witness: after a category write, a name token was resolved twice in a
\* row to a category renamed or created by that write
C11_Witness ==
  /\ served > 0
  /\ categories # MainCategories
  /\ resolved.again
  /\ resolved.token \in Names
  /\ resolved.out.ok
  /\ resolved.out.categoryDoc \notin {MainCategories[i] : i \in 1..Len(MainCategories)}

\* the category of the record is an existing category of the record's own kind
CategoryOfOwnKind(r) ==
  IF r.kind = "photo" THEN r.category \in PhotoCategories
  ELSE FindOneByIdAndType(categories, r.category, r.kind) # NoDoc

Total(sent) == sent["image"] + sent["images"] + sent["video"] + sent["thumbnail"]
                 + sent["photo"] + sent["other"]

\* the request the middleware parsed last has been answered or handed over
Answered == wire.seq = served /\ wire.seq > 0

\* the request carried k image blobs of an allowed type in the images field,
\* and nothing else
ImageBlobs(k) ==
  /\ wire.route = "press/upload-multiple"
  /\ wire.sent["images"] = k
  /\ Total(wire.sent) = k
  /\ ~wire.disallowed

\* C13: the press multi-image route accepts a request with 1 to 5 image blobs
\* (the middleware hands every blob to the controller, and when the request is
\* done its record has one asset per blob, in submitted order, and is active),
\* and a request with no blob or more than 5 ends failed with no upload made.
C13_PressAcceptsOneToFiveImages ==
  \A k \in 0..PressArrayMaxCount + 1 :
    ImageBlobs(k) =>
      IF k \in 1..PressArrayMaxCount
      THEN /\ wire.error = NoMulterError
           /\ wire.accepted["images"] = k
           /\ (Answered /\ req.pc = "done") =>
                \E r \in records :
                  /\ r.id = res.recordId
                  /\ Len(r.assets) = k
                  /\ \A i \in 1..k : r.assets[i] = uploads[i].ref
                  /\ r.isActive
      ELSE Answered => (req.pc = "failed" /\ uploads = <<>>)

\* the file set of a video upload request is invalid: no video blob, or a blob
\* in a field other than video and thumbnail
InvalidFileSet ==
  /\ wire.route = "videos/upload"
  /\ \/ wire.sent["video"] = 0
     \/ \E f \in FieldNames \ {"video", "thumbnail"} : wire.sent[f] > 0

\* exactly one video blob and at most one thumbnail blob, of allowed types
ValidFileSet ==
  /\ wire.route = "videos/upload"
  /\ wire.sent["video"] = 1
  /\ wire.sent["thumbnail"] <= 1
  /\ Total(wire.sent) = wire.sent["video"] + wire.sent["thumbnail"]
  /\ ~wire.disallowed

\* C14: a video upload request with an invalid file set is answered with a
\* client error (status 400), no upload call and no record; a request with a
\* valid file set reaches the controller with its video (and thumbnail).
C14_InvalidFileSetIsRejected ==
  /\ (InvalidFileSet /\ Answered) =>
       /\ req.pc = "failed"
       /\ res.status = 400
       /\ uploads = <<>>
       /\ records = before
  /\ ValidFileSet =>
       /\ wire.error = NoMulterError
       /\ Answered => (req.op = "uploadVideo" /\ req.nfiles = 1
                       /\ req.thumb = (wire.sent["thumbnail"] = 1))

\* the parts of the request are in fields the route declares, within their
\* counts and the limit on the number of files
DeclaredFields ==
  /\ \A f \in FieldNames : wire.sent[f] <= MaxCount(wire.route, f)
  /\ FilesLimit(wire.route) > 0 => Total(wire.sent) <= FilesLimit(wire.route)

\* C15: on every upload route, a request with a blob whose media type is not
\* in the list of its field is answered with the invalid-file-type error
\* (status 400) by the middleware: the controller is not run, no upload call
\* is made and no record is persisted.
C15_UnsupportedMediaTypeIsRejected ==
  (wire.route \in UploadRoutes /\ DeclaredFields /\ wire.disallowed) =>
    /\ wire.error # NoMulterError
    /\ Answered =>
         /\ req.op = "none"
         /\ req.pc = "failed"
         /\ res.status = 400
         /\ res.message = <<"Invalid file type">>
         /\ uploads = <<>>
         /\ records = before

\* the number of assets of the request is within the bounds of its kind
AssetBoundsOk(r) ==
  IF r.op = "createPress" THEN r.nfiles \in 1..MaxPressImages ELSE r.nfiles = 1

\* the category token of the request resolves to a category of its kind
TokenResolves(r) ==
  CASE KindOf(r.op) = "photo" -> r.category \in PhotoCategories
    [] KindOf(r.op) = "press" -> validateAndResolveCategory(r.category, categories).ok
    [] OTHER -> uploadVideoCategory(r.category, categories).ok

\* C16: a creation from existing references makes no object-store call and
\* leaves the blobs alone; when it succeeds it has added exactly one record, of
\* its kind, with the assets of the request within the bounds (press: 1 to 5)
\* and a category of that kind; when it fails, and it fails whenever the
\* asset list is outside its bounds or the category token does not resolve,
\* the records are unchanged.
C16_CreateFromReferences ==
  [][(served' = served + 1 /\ req'.op \in CreateOps) =>
       /\ blobs' = blobs
       /\ nextRef' = nextRef
       /\ uploads' = <<>>
       /\ dels' = <<>>
       /\ categories' = categories
       /\ req'.pc \in {"done", "failed"}
       /\ req'.pc = "done" =>
            \E r \in records' \ records :
              /\ records' = records \cup {r}
              /\ r.id = res'.recordId
              /\ r.kind = KindOf(req'.op)
              /\ r.isActive
              /\ Len(r.assets) >= 1
              /\ r.kind = "press" => Len(r.assets) = req'.nfiles
              /\ r.assets[1] # NoRef
              /\ CategoryOfOwnKind(r)
       /\ req'.pc = "failed" => records' = records
       /\ (~AssetBoundsOk(req') \/ ~TokenResolves(req')) => req'.pc = "failed"]_vars

\* C16 witness: createPress has persisted a record with the 5 images of the
\* request, its category given by name
C16_Witness ==
  /\ req.op = "createPress"
  /\ req.pc = "done"
  /\ req.nfiles = MaxPressImages
  /\ req.category = "news"
  /\ \E r \in records : r.id = res.recordId /\ Len(r.assets) = MaxPressImages
                        /\ r.category = "c1"

\* the upload calls an upload request has to make
RequiredUploads ==
  CASE req.op = "uploadMultiplePress" -> req.nfiles
    [] req.op = "uploadVideo" -> 2
    [] OTHER -> 1

\* C17: in an upload request, Model.create is called only when every upload
\* the request has to make has succeeded, and a record the request added is
\* the only one added, made of exactly the public ids its own successful
\* uploads returned, one per upload.
C17_RecordOnlyAfterAllUploads ==
  req.op \in UploadOps =>
    /\ (req.createCalled \/ req.pc \in {"persisting", "done"}) =>
         /\ Len(uploads) = RequiredUploads
         /\ \A i \in 1..Len(uploads) : uploads[i].st = "ok" /\ uploads[i].ref # NoRef
    /\ records # before =>
         /\ req.pc = "done"
         /\ \E r \in records \ before :
              /\ records = before \cup {r}
              /\ r.id = res.recordId
              /\ Len(r.assets) = Len(uploads)
              /\ \A i \in 1..Len(uploads) :
                   /\ uploads[i].st = "ok"
                   /\ r.assets[i] = uploads[i].ref
                   /\ \E b \in blobs : b.ref = r.assets[i]

\* C17 witness: uploadVideo has persisted a record whose thumbnail was derived
\* from the uploaded video
C17_Witness ==
  /\ req.op = "uploadVideo"
  /\ req.pc = "done"
  /\ ~req.thumb
  /\ uploads[2].derived
  /\ \E r \in records : r.id = res.recordId /\ r.assets[2] = ThumbnailOf(uploads[1].ref)

\* an upload request that has passed its checks and has not answered yet
UploadInProgress == req.op \in UploadOps /\ req.pc \in {"uploading", "persisting"}

\* the two ends of an upload request: the record is persisted and the answer is
\* 201, or the answer is an error
UploadDone ==
  /\ req.pc = "done"
  /\ res.status = 201
  /\ \E r \in records : r.id = res.recordId
UploadFailed == req.pc = "failed" /\ res.status >= 400

\* C18: when every store call comes back, an upload request that has passed
\* its checks ends with a persisted record and a success response, or with an
\* error response; it does not stay in its upload or persistence step.
C18_UploadRequestTerminates ==
  UploadInProgress ~> (req.op \in UploadOps /\ (UploadDone \/ UploadFailed))

\* C18 witness: uploadMultiplePress has answered with an error after one of its
\* uploads was rejected while another was stored
C18_Witness ==
  /\ req.op = "uploadMultiplePress"
  /\ UploadFailed
  /\ \E i, j \in 1..Len(uploads) : uploads[i].st = "failed" /\ uploads[j].st = "ok"

\* no handler is running and no upload call is still in flight
Quiescent == req.pc \in {"idle", "done", "failed"} /\ Pending(uploads) = {}

\* the blob is an asset of some record
Referenced(b) ==
  \E r \in records : \E i \in 1..Len(r.assets) : r.assets[i] = b.ref

\* C19: whenever no request is in flight and no destroy call has thrown so
\* far, every blob of the object store (all of them were created by upload
\* requests) is an asset of a persisted record.
C19_NoOrphanedBlobs ==
  (Quiescent /\ ~destroyFailed) => \A b \in blobs : Referenced(b)

\* the assets of the record that no blob of the object store carries
Dangling(r) ==
  {i \in 1..Len(r.assets) :
     r.assets[i] # NoRef /\ ~\E b \in blobs : b.ref = r.assets[i]}

\* C20: whenever no request is in flight, every asset of a persisted active
\* record is the public id of a blob that exists in the object store.
C20_NoDanglingRefs ==
  Quiescent => \A r \in records : r.isActive => Dangling(r) = {}

\* the places (record, asset index) where a public id is stored
Holders(ref) ==
  UNION {{<<r.id, r.kind, i>> : i \in {k \in 1..Len(r.assets) : r.assets[k] = ref}} :
         r \in records}

\* C21: no public id is stored in two records, nor twice in one record.
C21_RefOwnedByOneRecord ==
  \A r \in records : \A i \in 1..Len(r.assets) :
    r.assets[i] # NoRef => Cardinality(Holders(r.assets[i])) = 1

\* the public ids the record held before the request and holds no more
RemovedAssets(old, new) ==
  {old.assets[i] : i \in 1..Len(old.assets)} \ {new.assets[i] : i \in 1..Len(new.assets)}

\* C22: when updatePress has answered with success, a destroy call was made for
\* every public id that was in the record's images before the request and is
\* not in them after it.
C22_UpdateDestroysRemovedAssets ==
  (req.op = "updatePress" /\ req.pc = "done") =>
    \A old \in before, new \in records :
      (old.id = res.recordId /\ new.id = res.recordId) =>
        \A ref \in RemovedAssets(old, new) : ref \in DestroyCalls

\* the message of the error the handler of the failed request raised: the
\* missing file, the unresolved category, the rejected upload, the refused
\* create, the missing record or the thrown destroy
Raised ==
  CASE req.op \in UploadOps /\ req.nfiles = 0 ->
         CASE req.op = "uploadPhoto" -> <<"No file uploaded">>
           [] req.op = "uploadPress" -> <<"Image file is required">>
           [] req.op = "uploadMultiplePress" -> <<"No files uploaded">>
           [] OTHER -> <<"Video file is required">>
    [] req.op \in UploadOps /\ req.nfiles > 0 /\ uploads = <<>> ->
         IF req.op = "uploadVideo"
         THEN uploadVideoCategory(req.category, categories).error
         ELSE validateAndResolveCategory(req.category, categories).error
    [] req.op \in UploadOps /\ req.nfiles > 0 /\ uploads # <<>> ->
         IF req.createCalled THEN ValidationError ELSE StoreError
    [] req.op \in DeleteOps /\ Target = {} ->
         CASE req.op = "deletePhoto" -> <<"Photo not found">>
           [] req.op = "deletePress" -> <<"Press article not found">>
           [] OTHER -> <<"Video not found">>
    [] OTHER -> StoreError

\* C23: the response of a failed upload or delete request carries the message
\* of the error its handler raised, not a generic replacement.
C23_OriginatingErrorIsSurfaced ==
  (req.op \in UploadOps \cup DeleteOps /\ req.pc = "failed") => res.message = Raised

\* the upload calls that settle in the step
Settling ==
  {i \in 1..Len(uploads) :
     /\ Len(uploads') = Len(uploads)
     /\ uploads[i].st = "pending"
     /\ uploads'[i].st \in {"ok", "failed"}}

\* C24: when an upload call of a request settles, every upload call of that
\* request had been started before (none was waiting for another to be awaited).
C24_AllUploadsStartedTogether ==
  [][Settling # {} => \A j \in 1..Len(uploads) : uploads[j].st # "idle"]_vars

\* every destroy call of the request was made and has come back
DestroysSettled ==
  /\ dels # <<>>
  /\ \A i \in 1..Len(dels) : dels[i].st \in {"ok", "not found", "failed"}

\* C25: in a delete request, findByIdAndDelete is reached, and the record is
\* gone from the record store, only when every destroy call for the record's
\* blobs has settled, whatever its outcome.
C25_RecordRemovedAfterDestroysSettle ==
  req.op \in DeleteOps =>
    /\ req.pc = "removing" => DestroysSettled
    /\ records # before =>
         /\ DestroysSettled
         /\ \A r \in Target :
              Len(dels) = Cardinality({i \in 1..Len(r.assets) : r.assets[i] # NoRef})
         /\ records = before \ Target

\* C25 witness: deletePress has removed a record of two images after one
\* destroy call succeeded and the other threw
C25_Witness ==
  /\ req.op = "deletePress"
  /\ req.pc = "done"
  /\ Len(dels) = 2
  /\ \E i, j \in 1..2 : dels[i].st = "ok" /\ dels[j].st = "failed"
  /\ Target # {} /\ records = before \ Target

\* C26: once uploadMultiplePress has answered with the failure of a request in
\* which an upload was rejected, no upload call of that request is still in
\* flight (so that none can store a blob afterwards).
C26_NoUploadInFlightAfterFailure ==
  ( /\ req.op = "uploadMultiplePress"
    /\ req.pc = "failed"
    /\ \E i \in 1..Len(uploads) : uploads[i].st = "failed" )
  => Pending(uploads) = {}

\* C27: when deleteVideo has answered with success and none of its destroy
\* calls threw, no blob of the record it removed (the video, the uploaded or
\* derived thumbnail) is left in the object store.
C27_DeleteVideoRemovesBothBlobs ==
  ( /\ req.op = "deleteVideo"
    /\ req.pc = "done"
    /\ \A i \in 1..Len(dels) : dels[i].st # "failed" )
  => \A r \in Target : \A i \in 1..Len(r.assets) :
       ~\E b \in blobs : b.ref = r.assets[i]

\* the _ids of the Category collection
CategoryDocIds == {categories[i].id : i \in 1..Len(categories)}

\* C28: every persisted video record refers to a category that is in the
\* Category collection, whatever the interleaving of deleteVideoCategory with
\* createVideo and uploadVideo.
C28_NoVideoOfDeletedCategory ==
  \A r \in records : r.kind = "video" => r.category \in CategoryDocIds

\* the destroy calls of the request that threw or returned a result other than
\* "ok", in the order of the request's list
NotDeleted ==
  SelectSeq([i \in 1..Len(dels) |-> i], LAMBDA i : dels[i].st \in {"failed", "not found"})

\* C29: when deleteMultipleImages has answered, successCount + failedCount is
\* totalRequested, and the failed list has one entry per public id whose destroy
\* call threw or returned a result other than "ok": that public id, with the
\* error of its own call.
C29_FailedListNamesFailedIds ==
  (req.op = "deleteMultipleImages" /\ req.pc = "done") =>
    /\ report.totalRequested = Len(dels)
    /\ report.successCount + report.failedCount = report.totalRequested
    /\ Len(report.failed) = Len(NotDeleted)
    /\ \A k \in 1..Len(NotDeleted) :
         /\ report.failed[k].publicId = dels[NotDeleted[k]].ref
         /\ report.failed[k].error = IF dels[NotDeleted[k]].st = "failed"
                                     THEN StoreError ELSE <<"Deletion failed">>

\* the getPhoto requests on the photo: those still running, and those answered 200
Reading(id) ==
  {t \in Slots : /\ inflight[t].op = "getPhoto"
                 /\ inflight[t].id = id
                 /\ inflight[t].pc \in {"finding", "saving"}}
Shown(id) ==
  {t \in Slots : /\ inflight[t].op = "getPhoto"
                 /\ inflight[t].id = id
                 /\ inflight[t].status = 200}

\* C30: once the getPhoto requests on a photo have all answered, the views of
\* the photo (0 when it was created) is the number of those that answered with
\* success.
C30_NoViewIsLost ==
  \A id \in 1..MaxReqs : Reading(id) = {} => views[id] = Cardinality(Shown(id))

====
